---- MODULE Spec2Model ----
(***************************************************************************)
(* A model of pynvgt's compiler wrapper (src/pynvgt/compiler.py):          *)
(*   - build_command, the argument vector builder;                         *)
(*   - the facade operations and _execute_command / _run_command;          *)
(*   - detect_nvgt_installation and NVGTCompiler.__init__.                 *)
(* Python's None is the string None below; str values are TLA+ strings and *)
(* f-strings are string concatenation (\o).                                *)
(***************************************************************************)
EXTENDS Integers, Sequences, FiniteSets, TLC

VARIABLES
    nvgt_binary,   \* NVGTCompiler.nvgt_binary (None before construction)
    script_path,   \* build_command's script_path argument
    options,       \* the caller's NVGTCompilerOptions object
    cmd,           \* the list returned by the last build_command call
    calls,         \* build_command calls made so far: "none", "once", "again"
    fs,            \* the file system: path -> "exe", "file", "dir" or "missing"
    task,          \* per invocation: its position, arguments, locals and result
    procs,         \* the child processes created so far, in creation order
    system,        \* platform.system().lower() of the host
    resolve,       \* the last detect_nvgt_installation / NVGTCompiler(...) call
    inst           \* the last installer call: its arguments, outcome and effects

buildVars == <<script_path, options, cmd, calls>>
execVars == <<fs, task, procs>>
resolveVars == <<system, resolve, inst>>
vars == <<nvgt_binary, script_path, options, cmd, calls, fs, task, procs,
          system, resolve, inst>>

None == "<None>"

(***************************************************************************)
(* Bounds of the model.                                                    *)
(***************************************************************************)
\* total number of entries over the list-valued option fields
MaxEntries == 2
\* largest exit code of the compiler
MaxExit == 2

(***************************************************************************)
(* Enums and the options dataclass.                                        *)
(***************************************************************************)
NVGTPlatform == {"auto", "windows", "linux", "mac", "android"}
\* the platform values the callers of the model pass
TargetPlatforms == {"auto", "android"}

IGNORE == 0
PRINT == 1
TREAT_AS_ERROR == 2
NVGTWarningLevel == {IGNORE, PRINT, TREAT_AS_ERROR}

\* NVGTCompilerOptions() with every field at its default
NVGTCompilerOptions ==
    [compile_release |-> FALSE, compile_debug |-> FALSE,
     run_with_debugger |-> FALSE, platform |-> None,
     quiet |-> FALSE, super_quiet |-> FALSE, warning_level |-> IGNORE,
     assets |-> <<>>, document_assets |-> <<>>, includes |-> <<>>,
     include_directories |-> <<>>, config_properties |-> <<>>,
     settings_file |-> None, script_args |-> <<>>]

\* Python truthiness of an Optional[str]: None and "" are falsy
TruthyStr(s) == s # None /\ s # ""

\* Python truthiness of an Optional[NVGTPlatform]: every Enum member is truthy
TruthyEnum(p) == p # None

(***************************************************************************)
(* build_command (compiler.py 188-242).  The list cmd is grown by appends  *)
(* in the order of the code; a for loop over a list appends one element    *)
(* per entry.                                                              *)
(***************************************************************************)
RECURSIVE AppendEach(_, _, _)
\* for x in xs: cmd.append(f"{prefix}{x}")
AppendEach(c, prefix, xs) ==
    IF xs = <<>> THEN c
    ELSE AppendEach(Append(c, prefix \o Head(xs)), prefix, Tail(xs))

RECURSIVE AppendProperties(_, _)
\* for name, value in config_properties.items(): cmd.append(f"-s{name}={value}")
AppendProperties(c, props) ==
    IF props = <<>> THEN c
    ELSE AppendProperties(
             Append(c, "-s" \o Head(props)[1] \o "=" \o Head(props)[2]),
             Tail(props))

\* the mode tests as three independent ifs
AppendModeIndependent(c, o) ==
    LET c1 == IF o.compile_release THEN Append(c, "-c") ELSE c
        c2 == IF o.compile_debug THEN Append(c1, "-C") ELSE c1
    IN  IF o.run_with_debugger THEN Append(c2, "-d") ELSE c2

\* if compile_release / elif compile_debug / elif run_with_debugger
AppendMode(c, o) ==
    IF o.compile_release THEN Append(c, "-c")
    ELSE IF o.compile_debug THEN Append(c, "-C")
    ELSE IF o.run_with_debugger THEN Append(c, "-d")
    ELSE c

\* if options.platform: cmd.append(f"-p{options.platform.value}")
AppendPlatform(c, o) ==
    IF TruthyEnum(o.platform) THEN Append(c, "-p" \o o.platform) ELSE c

\* the verbosity tests with quiet tested first
AppendVerbosityQuietFirst(c, o) ==
    IF o.quiet THEN Append(c, "-q")
    ELSE IF o.super_quiet THEN Append(c, "-Q")
    ELSE c

\* if options.super_quiet / elif options.quiet
AppendVerbosity(c, o) ==
    IF o.super_quiet THEN Append(c, "-Q")
    ELSE IF o.quiet THEN Append(c, "-q")
    ELSE c

\* if options.warning_level != NVGTWarningLevel.IGNORE
AppendWarningLevel(c, o) ==
    IF o.warning_level # IGNORE
    THEN Append(c, "-w" \o ToString(o.warning_level)) ELSE c

\* if options.settings_file: cmd.append(f"-S{options.settings_file}")
AppendSettingsFile(c, o) ==
    IF TruthyStr(o.settings_file) THEN Append(c, "-S" \o o.settings_file) ELSE c

\* the separator appended whether or not there are script arguments
AppendScriptArgsAlways(c, o) == Append(c, "--") \o o.script_args

\* if options.script_args: cmd.append("--"); cmd.extend(options.script_args)
AppendScriptArgs(c, o) ==
    IF o.script_args # <<>> THEN Append(c, "--") \o o.script_args ELSE c

build_command(binary, script, o) ==
    LET c0 == <<binary>>
        c1 == AppendMode(c0, o)
        c2 == AppendPlatform(c1, o)
        c3 == AppendVerbosity(c2, o)
        c4 == AppendWarningLevel(c3, o)
        c5 == AppendEach(c4, "-a", o.assets)
        c6 == AppendEach(c5, "-A", o.document_assets)
        c7 == AppendEach(c6, "-i", o.includes)
        c8 == AppendEach(c7, "-I", o.include_directories)
        c9 == AppendProperties(c8, o.config_properties)
        c10 == AppendSettingsFile(c9, o)
        c11 == Append(c10, script)
    IN  AppendScriptArgs(c11, o)

(***************************************************************************)
(* The inputs of build_command.                                            *)
(***************************************************************************)
AssetPaths == {"a.ogg", "b.ogg"}
DocumentPaths == {"a.txt", "b.txt"}
IncludePaths == {"a.nvgt", "b.nvgt"}
IncludeDirs == {"inc", "lib"}
PropertyNames == {"a", "b"}
PropertyValues == {"1", "2"}
ScriptArgs == {"--foo", "bar", "-q"}
SettingsFiles == {None, "", "cfg.ini"}
ScriptPaths == {"game.nvgt"}
BinaryPaths == {"/opt/nvgt/nvgt"}

\* the lists of length n over S
SeqN(S, n) == [1..n -> S]

\* a dict's items(): insertion-ordered pairs with pairwise distinct keys
Items(n) ==
    {p \in SeqN(PropertyNames \X PropertyValues, n) :
        \A i, j \in 1..n : i # j => p[i][1] # p[j][1]}

\* how many entries each of the six list-valued fields holds
Lengths ==
    {l \in [1..6 -> 0..MaxEntries] :
        l[1] + l[2] + l[3] + l[4] + l[5] + l[6] <= MaxEntries}

ListFields ==
    UNION {[assets : SeqN(AssetPaths, l[1]),
            document_assets : SeqN(DocumentPaths, l[2]),
            includes : SeqN(IncludePaths, l[3]),
            include_directories : SeqN(IncludeDirs, l[4]),
            config_properties : Items(l[5]),
            script_args : SeqN(ScriptArgs, l[6])] : l \in Lengths}

ScalarFields ==
    [compile_release : BOOLEAN, compile_debug : BOOLEAN,
     run_with_debugger : BOOLEAN, platform : {None} \cup TargetPlatforms,
     quiet : BOOLEAN, super_quiet : BOOLEAN,
     warning_level : NVGTWarningLevel, settings_file : SettingsFiles]

WithFields(s, l) ==
    [compile_release |-> s.compile_release, compile_debug |-> s.compile_debug,
     run_with_debugger |-> s.run_with_debugger, platform |-> s.platform,
     quiet |-> s.quiet, super_quiet |-> s.super_quiet,
     warning_level |-> s.warning_level,
     assets |-> l.assets, document_assets |-> l.document_assets,
     includes |-> l.includes, include_directories |-> l.include_directories,
     config_properties |-> l.config_properties,
     settings_file |-> s.settings_file, script_args |-> l.script_args]

(***************************************************************************)
(* The file system and the results (compiler.py 43-80).                    *)
(***************************************************************************)
Tasks == {"t1", "t2"}

ExecBinaries == {"/opt/nvgt/nvgt", "/opt/my nvgt/nvgt", "/opt/nvgt/readme.txt", "/no/nvgt"}
ExecScripts == {"game.nvgt", "gone.nvgt"}

\* the files the invocations run against: two executable compilers, a
\* regular file without execute permission, and paths that name nothing
StaticFS ==
    [p \in ExecBinaries \cup ExecScripts |->
        IF p \in {"/opt/nvgt/nvgt", "/opt/my nvgt/nvgt"} THEN "exe"
        ELSE IF p \in {"/opt/nvgt/readme.txt", "game.nvgt"} THEN "file"
        ELSE "missing"]

\* what a path names; Path("") is the current directory
KindOf(f, p) ==
    IF p \in DOMAIN f THEN f[p] ELSE IF p = "" THEN "dir" ELSE "missing"

\* Path(p).exists()
exists(f, p) == KindOf(f, p) # "missing"

\* Path(p).is_file()
is_file(f, p) == KindOf(f, p) \in {"exe", "file"}

\* no installer call has been made
NoInstall ==
    [call |-> "none", platform_name |-> None, path |-> None,
     entered |-> FALSE, procedure |-> None, raised |-> None,
     downloads |-> {}, ran |-> {}, removed |-> {}, created |-> {}]

\* no resolution call has been made
NoResolve ==
    [call |-> "none", arg |-> None, result |-> None, probed |-> {},
     raised |-> FALSE]

\* CompilationResult.success_result
success_result(stdout, stderr, return_code, command) ==
    [success |-> return_code = 0, error |-> None, stdout |-> stdout,
     stderr |-> stderr, return_code |-> return_code, command |-> command]

\* CompilationResult.error_result with the default return_code
error_result(error) ==
    [success |-> FALSE, error |-> error, stdout |-> "", stderr |-> "",
     return_code |-> -1, command |-> None]

\* a task that has not been called; result is meaningful once pc = "done"
IdleTask ==
    [pc |-> "idle", op |-> None, script_path |-> None,
     options |-> NVGTCompilerOptions, cmd |-> <<>>, command_str |-> None,
     proc |-> 0, result |-> error_result(None)]

(***************************************************************************)
(* SpecBuild: a caller holds one options object and calls build_command on *)
(* one NVGTCompiler, repeatedly.                                           *)
(***************************************************************************)
InitBuild ==
    /\ nvgt_binary \in BinaryPaths
    /\ script_path \in ScriptPaths
    /\ \E s \in ScalarFields, l \in ListFields : options = WithFields(s, l)
    /\ cmd = <<>>
    /\ calls = "none"
    /\ fs = StaticFS
    /\ task = [t \in Tasks |-> IdleTask]
    /\ procs = <<>>
    /\ system = "linux"
    /\ resolve = NoResolve
    /\ inst = NoInstall

\* a build_command that consumes options.script_args while it copies them
BuildCommandCallDraining ==
    /\ cmd' = build_command(nvgt_binary, script_path, options)
    /\ calls' = IF calls = "none" THEN "once" ELSE "again"
    /\ options' = [options EXCEPT !.script_args = <<>>]
    /\ UNCHANGED <<nvgt_binary, script_path, execVars, resolveVars>>

\* cmd = compiler.build_command(script_path, options)
BuildCommandCall ==
    /\ cmd' = build_command(nvgt_binary, script_path, options)
    /\ calls' = IF calls = "none" THEN "once" ELSE "again"
    /\ UNCHANGED <<nvgt_binary, script_path, options, execVars, resolveVars>>

NextBuild == BuildCommandCall

SpecBuild == InitBuild /\ [][NextBuild]_vars

(***************************************************************************)
(* Claims about build_command, checked under SpecBuild.                    *)
(***************************************************************************)
\* <<s>> when cond holds, nothing otherwise
Opt(cond, s) == IF cond THEN <<s>> ELSE <<>>

\* one prefix+entry per entry of xs, in the order of xs
Each(prefix, xs) == [i \in 1..Len(xs) |-> prefix \o xs[i]]

\* one -sname=value per item, in the order of the items
EachProperty(props) ==
    [i \in 1..Len(props) |-> "-s" \o props[i][1] \o "=" \o props[i][2]]

ModeOf(o) ==
    IF o.compile_release THEN <<"-c">>
    ELSE IF o.compile_debug THEN <<"-C">>
    ELSE IF o.run_with_debugger THEN <<"-d">>
    ELSE <<>>

\* the vector of claim C1; settingsGiven says when the -S flag is due
VectorOf(binary, script, o, settingsGiven) ==
    <<binary>>
    \o ModeOf(o)
    \o Opt(o.platform # None, "-p" \o o.platform)
    \o Opt(o.super_quiet \/ o.quiet, IF o.super_quiet THEN "-Q" ELSE "-q")
    \o Opt(o.warning_level # IGNORE, "-w" \o ToString(o.warning_level))
    \o Each("-a", o.assets)
    \o Each("-A", o.document_assets)
    \o Each("-i", o.includes)
    \o Each("-I", o.include_directories)
    \o EachProperty(o.config_properties)
    \o Opt(settingsGiven, "-S" \o o.settings_file)
    \o <<script>>
    \o (IF Len(o.script_args) > 0 THEN <<"--">> \o o.script_args ELSE <<>>)

\* C1 as stated: build_command returns the binary, the mode flag, -p, the
\* verbosity flag, -w, the -a, -A, -i, -I and -s flags, -S whenever
\* settings_file is set (is not None), the script path and, for non-empty
\* script_args, "--" and the arguments, in this order and nothing else.
C1_OrderAsStated ==
    calls # "none" =>
        cmd = VectorOf(nvgt_binary, script_path, options,
                       options.settings_file # None)

\* C1 amended: as C1, with -S emitted exactly when settings_file is a
\* non-empty string (None and "" both emit no -S flag).
C1_FixedOrder ==
    calls # "none" =>
        cmd = VectorOf(nvgt_binary, script_path, options,
                       options.settings_file \notin {None, ""})

\* C1 witness: a call has returned a vector holding a mode flag, -p, -q, -w,
\* an asset, a document asset and -S in front of the script path.
C1_Witness ==
    /\ calls # "none"
    /\ options.compile_debug /\ ~options.compile_release
    /\ options.platform = "android" /\ options.quiet /\ ~options.super_quiet
    /\ options.warning_level = TREAT_AS_ERROR
    /\ options.assets = <<"b.ogg">> /\ options.document_assets = <<"a.txt">>
    /\ options.settings_file = "cfg.ini"
    /\ cmd = <<nvgt_binary, "-C", "-pandroid", "-q", "-w2", "-ab.ogg",
               "-Aa.txt", "-Scfg.ini", script_path>>

\* the index of the script path: the first element after the binary that is it
ScriptIndex(c, script) ==
    CHOOSE i \in 2..Len(c) : c[i] = script /\ \A j \in 2..(i - 1) : c[j] # script

\* the part of the vector between the binary and the script path
FlagPart(c, script) == SubSeq(c, 2, ScriptIndex(c, script) - 1)

\* how many elements of c are in S
Count(c, S) == Cardinality({i \in DOMAIN c : c[i] \in S})

\* C3: in front of the script path there is at most one of -Q and -q: -Q
\* when super_quiet (also when quiet is true too), -q when only quiet, none
\* when neither.
C3_OneVerbosityFlag ==
    calls # "none" =>
        LET f == FlagPart(cmd, script_path)
        IN  /\ Count(f, {"-Q", "-q"}) <= 1
            /\ options.super_quiet => Count(f, {"-Q"}) = 1
            /\ (options.quiet /\ ~options.super_quiet) => Count(f, {"-q"}) = 1
            /\ (~options.quiet /\ ~options.super_quiet) => Count(f, {"-Q", "-q"}) = 0

\* C3 witness: quiet and super_quiet are both true and the vector was built
\* (with a script argument -q behind the script path).
C3_Witness ==
    /\ calls # "none"
    /\ options.quiet /\ options.super_quiet
    /\ options.script_args = <<"-q">>
    /\ Count(cmd, {"-Q"}) = 1

FacadeOps == {"run_script", "compile_release", "compile_debug", "debug_script"}
QueryOps == {"get_version", "get_help"}

RECURSIVE Join(_, _)
\* sep.join(words)
Join(sep, words) ==
    IF words = <<>> THEN ""
    ELSE IF Len(words) = 1 THEN words[1]
    ELSE words[1] \o sep \o Join(sep, Tail(words))

\* f'"{arg}"'
Quoted(arg) == "\"" \o arg \o "\""

\* " ".join(f'"{arg}"' for arg in cmd)
QuoteJoin(c) == Join(" ", [i \in 1..Len(c) |-> Quoted(c[i])])

\* the streams a child writes, as bytes: nothing, b"ok", and b"\xff", which
\* is not UTF-8
StdoutStreams == {<<>>, <<111, 107>>, <<255>>}
StderrStreams == {<<>>, <<101>>}
\* what the shell writes when it cannot run the program (abbreviated)
ShellDiagnostic == <<110, 111>>

Chr == [b \in {101, 107, 110, 111} |->
           IF b = 101 THEN "e" ELSE IF b = 107 THEN "k"
           ELSE IF b = 110 THEN "n" ELSE "o"]

\* whether bytes.decode("utf-8") returns: the bytes of the model are ASCII
\* or 0xff, and 0xff starts no UTF-8 sequence
CanDecode(b) == \A i \in DOMAIN b : b[i] < 128

RECURSIVE DecodeUtf8(_)
\* b.decode("utf-8") for bytes that decode
DecodeUtf8(b) == IF b = <<>> THEN "" ELSE Chr[Head(b)] \o DecodeUtf8(Tail(b))

\* stream.decode("utf-8") if stream else ""
DecodeOrEmpty(b) == IF b # <<>> THEN DecodeUtf8(b) ELSE ""

\* str(e) of the exceptions the model raises
OSErrorText == "[Errno 11] Resource temporarily unavailable"
UnicodeDecodeErrorText ==
    "'utf-8' codec can't decode byte 0xff in position 0: invalid start byte"

\* the message prefix of each operation's except clause
FailurePrefix(opn) ==
    IF opn = "get_version" THEN "Failed to get version: "
    ELSE IF opn = "get_help" THEN "Failed to get help: "
    ELSE "Failed to execute command: "

\* the exit codes of the compiler, 0..MaxExit
ExitCodes == 0..MaxExit

\* what a child started by the shell for `program` can end with: the
\* compiler's own exit code and output when the shell can run it, the
\* shell's exit code 127 (not found) or 126 (cannot execute) otherwise
Outcomes(f, program) ==
    IF f[program] = "exe"
    THEN [returncode : ExitCodes, stdout : StdoutStreams, stderr : StderrStreams]
    ELSE {[returncode |-> IF f[program] = "missing" THEN 127 ELSE 126,
           stdout |-> <<>>, stderr |-> ShellDiagnostic]}

\* the keyword options a caller passes to a facade operation; a field at
\* its default stands for a keyword that is not passed
Keywords ==
    [compile_release : BOOLEAN, compile_debug : BOOLEAN,
     run_with_debugger : BOOLEAN, script_args : {<<>>, <<"-d">>}]

NoKeywords ==
    [compile_release |-> FALSE, compile_debug |-> FALSE,
     run_with_debugger |-> FALSE, script_args |-> <<>>]

\* NVGTCompilerOptions(**kwargs)
OptionsOf(k) ==
    [NVGTCompilerOptions EXCEPT
        !.compile_release = k.compile_release,
        !.compile_debug = k.compile_debug,
        !.run_with_debugger = k.run_with_debugger,
        !.script_args = k.script_args]

\* _execute_command without the test that the script file exists
execute_command_unchecked(t, opn, script, o) ==
    /\ task[t].pc = "idle"
    /\ LET c == build_command(nvgt_binary, script, o)
       IN  task' = [task EXCEPT ![t] =
                       [@ EXCEPT !.pc = "spawning", !.op = opn,
                                 !.script_path = script, !.options = o,
                                 !.cmd = c, !.command_str = QuoteJoin(c)]]
    /\ UNCHANGED <<nvgt_binary, buildVars, resolveVars, fs, procs>>

\* _execute_command up to its await: the preflight test, build_command and
\* the command string handed to _run_command
execute_command(t, opn, script, o) ==
    /\ task[t].pc = "idle"
    /\ IF ~exists(fs, script)
       THEN task' = [task EXCEPT ![t] =
                        [@ EXCEPT !.pc = "done", !.op = opn,
                                  !.script_path = script, !.options = o,
                                  !.result = error_result(
                                      "Script file not found: " \o script)]]
       ELSE LET c == build_command(nvgt_binary, script, o)
            IN  task' = [task EXCEPT ![t] =
                            [@ EXCEPT !.pc = "spawning", !.op = opn,
                                      !.script_path = script, !.options = o,
                                      !.cmd = c, !.command_str = QuoteJoin(c)]]
    /\ UNCHANGED <<nvgt_binary, buildVars, resolveVars, fs, procs>>

\* compile_release(script_path, **kwargs); compile_release itself cannot be
\* among the keywords (Python raises TypeError for a repeated keyword)
compile_release(t, script, k) ==
    /\ ~k.compile_release
    /\ execute_command(t, "compile_release", script,
                       [OptionsOf(k) EXCEPT !.compile_release = TRUE])

compile_debug(t, script, k) ==
    /\ ~k.compile_debug
    /\ execute_command(t, "compile_debug", script,
                       [OptionsOf(k) EXCEPT !.compile_debug = TRUE])

run_script(t, script, k) ==
    execute_command(t, "run_script", script, OptionsOf(k))

debug_script(t, script, k) ==
    /\ ~k.run_with_debugger
    /\ execute_command(t, "debug_script", script,
                       [OptionsOf(k) EXCEPT !.run_with_debugger = TRUE])

\* get_version / get_help up to the await: cmd and the string handed to
\* _run_command
query(t, opn, flag) ==
    /\ task[t].pc = "idle"
    /\ LET c == <<nvgt_binary, flag>>
       IN  task' = [task EXCEPT ![t] =
                       [@ EXCEPT !.pc = "spawning", !.op = opn, !.cmd = c,
                                 !.command_str = QuoteJoin(c)]]
    /\ UNCHANGED <<nvgt_binary, buildVars, resolveVars, fs, procs>>

get_version(t) == query(t, "get_version", "-V")

get_help(t) == query(t, "get_help", "-h")

\* asyncio.create_subprocess_shell(command, ...): the shell is started with
\* the command string and proc is the caller's handle on it, or the OS
\* refuses and the OSError reaches the caller's except clause.  The shell
\* takes the first double-quoted word of the command as the program.
create_subprocess_shell(t) ==
    /\ task[t].pc = "spawning"
    /\ \/ /\ procs' = Append(procs,
                 [owner |-> t, command |-> task[t].command_str,
                  program |-> task[t].cmd[1], state |-> "running",
                  returncode |-> 0, stdout |-> <<>>, stderr |-> <<>>])
          /\ task' = [task EXCEPT ![t] =
                         [@ EXCEPT !.pc = "communicating",
                                   !.proc = Len(procs) + 1]]
       \/ /\ task' = [task EXCEPT ![t] =
                         [@ EXCEPT !.pc = "done",
                                   !.result = error_result(
                                       FailurePrefix(task[t].op) \o OSErrorText)]]
          /\ UNCHANGED procs
    /\ UNCHANGED <<nvgt_binary, buildVars, resolveVars, fs>>

\* the child process of handle pid ends
ProcessExit(pid) ==
    /\ pid \in DOMAIN procs
    /\ procs[pid].state = "running"
    /\ \E out \in Outcomes(fs, procs[pid].program) :
          procs' = [procs EXCEPT ![pid] =
                       [@ EXCEPT !.state = "exited",
                                 !.returncode = out.returncode,
                                 !.stdout = out.stdout, !.stderr = out.stderr]]
    /\ UNCHANGED <<nvgt_binary, buildVars, resolveVars, fs, task>>

\* the command field of a result: _execute_command records the string it
\* ran, get_version and get_help record " ".join(cmd)
RecordedCommand(tk) ==
    IF tk.op \in QueryOps THEN Join(" ", tk.cmd) ELSE tk.command_str

\* what the caller makes of its child's exit: both streams decoded inside
\* the try block, success_result, or the except clause's error_result
ResultOf(tk, p) ==
    IF CanDecode(p.stdout) /\ CanDecode(p.stderr)
    THEN success_result(DecodeOrEmpty(p.stdout), DecodeOrEmpty(p.stderr),
                        p.returncode, RecordedCommand(tk))
    ELSE error_result(FailurePrefix(tk.op) \o UnicodeDecodeErrorText)

\* a proc.communicate() that returns only when no child is running at all
CommunicateReturnsAfterAll(t) ==
    /\ task[t].pc = "communicating"
    /\ \A pid \in DOMAIN procs : procs[pid].state = "exited"
    /\ task' = [task EXCEPT ![t] =
                   [@ EXCEPT !.pc = "done",
                             !.result = ResultOf(task[t], procs[task[t].proc])]]
    /\ UNCHANGED <<nvgt_binary, buildVars, resolveVars, fs, procs>>

\* proc.communicate() returns once the caller's own child has ended; the
\* caller builds its result
CommunicateReturns(t) ==
    /\ task[t].pc = "communicating"
    /\ procs[task[t].proc].state = "exited"
    /\ task' = [task EXCEPT ![t] =
                   [@ EXCEPT !.pc = "done",
                             !.result = ResultOf(task[t], procs[task[t].proc])]]
    /\ UNCHANGED <<nvgt_binary, buildVars, resolveVars, fs, procs>>

\* an NVGTCompiler was constructed with an explicit path (__init__ keeps
\* any non-empty path as it is); no call has been made yet
InitExec(binaries) ==
    /\ nvgt_binary \in binaries
    /\ script_path = None
    /\ options = NVGTCompilerOptions
    /\ cmd = <<>>
    /\ calls = "none"
    /\ fs = StaticFS
    /\ task = [t \in Tasks |-> IdleTask]
    /\ procs = <<>>
    /\ system = "linux"
    /\ resolve = NoResolve
    /\ inst = NoInstall

\* the steps of the invocations made by the tasks of ts with keywords of ks
NextExec(ts, ks) ==
    \/ \E t \in ts, script \in ExecScripts, k \in ks :
          \/ compile_release(t, script, k)
          \/ compile_debug(t, script, k)
          \/ run_script(t, script, k)
          \/ debug_script(t, script, k)
    \/ \E t \in ts : get_version(t) \/ get_help(t)
    \/ \E t \in ts : create_subprocess_shell(t)
    \/ \E pid \in DOMAIN procs : ProcessExit(pid)
    \/ \E t \in ts : CommunicateReturns(t)

(***************************************************************************)
(* Spec: one invocation at a time, with every keyword combination.         *)
(***************************************************************************)
Init == InitExec(ExecBinaries)

Next == NextExec({"t1"}, Keywords)

Spec == Init /\ [][Next]_vars

(***************************************************************************)
(* SpecConcurrent: two invocations on one NVGTCompiler, interleaved at the *)
(* awaits.                                                                 *)
(***************************************************************************)
InitConcurrent == InitExec(ExecBinaries)

NextConcurrent == NextExec(Tasks, {NoKeywords})

SpecConcurrent == InitConcurrent /\ [][NextConcurrent]_vars

(***************************************************************************)
(* Claims about the facade operations and the executor, checked under Spec *)
(***************************************************************************)
\* the invocation of t has returned its result
Done(t) == task[t].pc = "done"

\* the invocation of t created a child process
Spawned(t) == task[t].proc # 0

\* the child processes created for the invocation of t
ChildrenOf(t) == {pid \in DOMAIN procs : procs[pid].owner = t}

\* the result is a failure: success false, an error message, return code -1
IsFailure(r) == ~r.success /\ r.error # None /\ r.return_code = -1

\* C2: whatever the three mode booleans are, the part of a vector built by
\* build_command for run_script, compile_release, compile_debug or
\* debug_script in front of the script path holds at most one of -c, -C, -d:
\* -c alone whenever compile_release is true, none when no boolean is true.
C2_OneModeFlag ==
    \A t \in Tasks :
        (task[t].op \in FacadeOps /\ task[t].cmd # <<>>) =>
            LET f == FlagPart(task[t].cmd, task[t].script_path)
                o == task[t].options
            IN  /\ Count(f, {"-c", "-C", "-d"}) <= 1
                /\ o.compile_release =>
                      Count(f, {"-c"}) = 1 /\ Count(f, {"-C", "-d"}) = 0
                /\ (~o.compile_release /\ ~o.compile_debug /\ ~o.run_with_debugger)
                      => Count(f, {"-c", "-C", "-d"}) = 0
                /\ (o.compile_release \/ o.compile_debug \/ o.run_with_debugger)
                      => Count(f, {"-c", "-C", "-d"}) = 1

\* C2 witness: compile_debug was called with compile_release=True and
\* run_with_debugger=True and a script argument -d, and its vector is built.
C2_Witness ==
    /\ task["t1"].op = "compile_debug"
    /\ task["t1"].options.compile_release
    /\ task["t1"].options.compile_debug
    /\ task["t1"].options.run_with_debugger
    /\ task["t1"].cmd = <<nvgt_binary, "-c", "game.nvgt", "--", "-d">>

\* C4: a facade operation called with a script path that does not exist
\* returns a failure (success false, an error message, return code -1) and
\* creates no child process.
C4_MissingScript ==
    \A t \in Tasks :
        (task[t].op \in FacadeOps /\ ~exists(fs, task[t].script_path)) =>
            /\ ChildrenOf(t) = {}
            /\ Done(t)
            /\ IsFailure(task[t].result)

\* C4 witness: compile_release of the missing script has returned its
\* failure, naming the script.
C4_Witness ==
    /\ Done("t1")
    /\ task["t1"].op = "compile_release"
    /\ task["t1"].script_path = "gone.nvgt"
    /\ task["t1"].result.error = "Script file not found: gone.nvgt"
    /\ procs = <<>>

\* C5: when the child was created and ended with code n, the result has
\* return_code n, success exactly when n = 0, no error message, and the
\* text of the two captured streams.
C5_ExitCodeReported ==
    \A t \in Tasks :
        (Done(t) /\ Spawned(t)) =>
            LET p == procs[task[t].proc]
                r == task[t].result
            IN  /\ r.return_code = p.returncode
                /\ r.success <=> (p.returncode = 0)
                /\ r.error = None
                /\ CanDecode(p.stdout) /\ r.stdout = DecodeOrEmpty(p.stdout)
                /\ CanDecode(p.stderr) /\ r.stderr = DecodeOrEmpty(p.stderr)

\* the compiler could not be launched for the invocation of t: its command
\* was built and the shell could not be started, or the binary is no file
\* that can be executed
LaunchFailed(t) ==
    /\ task[t].cmd # <<>>
    /\ \/ Done(t) /\ ~Spawned(t)
       \/ fs[task[t].cmd[1]] # "exe"

\* C6: when the compiler cannot be launched (binary missing or not
\* executable, or the OS refuses), every operation returns a failure with
\* return code -1 and an error message.
C6_LaunchFailureReported ==
    \A t \in Tasks :
        (Done(t) /\ LaunchFailed(t)) => IsFailure(task[t].result)

\* the words of the model that hold a blank and so need quoting
NeedsQuoting(arg) == arg \in {"/opt/my nvgt/nvgt"}

\* the shell-quoted forms of a vector: every word quoted, or only the words
\* that need it
ShellQuotedForms(c) ==
    {QuoteJoin(c),
     Join(" ", [i \in 1..Len(c) |->
                   IF NeedsQuoting(c[i]) THEN Quoted(c[i]) ELSE c[i]])}

\* C8: after a child was created, the command field of a result that
\* reports the child's exit is the string handed to the shell, or the vector
\* it was built from in a shell-quoted form.
C8_CommandRecorded ==
    \A t \in Tasks :
        (Done(t) /\ Spawned(t) /\ task[t].result.error = None) =>
            \/ task[t].result.command = procs[task[t].proc].command
            \/ task[t].result.command \in ShellQuotedForms(task[t].cmd)

(***************************************************************************)
(* Claims about concurrent invocations, checked under SpecConcurrent.      *)
(***************************************************************************)
\* what holds of the invocation of t at every moment
Independent(t) ==
    /\ Cardinality(ChildrenOf(t)) <= 1
    /\ (task[t].pc = "communicating" \/ (Done(t) /\ Spawned(t))) =>
          ChildrenOf(t) = {task[t].proc}
    /\ task[t].pc = "spawning" => ENABLED create_subprocess_shell(t)
    /\ (task[t].pc = "communicating" /\ procs[task[t].proc].state = "exited")
          => ENABLED CommunicateReturns(t)
    /\ (Done(t) /\ Spawned(t)) =>
          LET p == procs[task[t].proc]
              r == task[t].result
          IN  IF r.error = None
              THEN /\ r.return_code = p.returncode
                   /\ r.stdout = DecodeOrEmpty(p.stdout)
                   /\ r.stderr = DecodeOrEmpty(p.stderr)
                   /\ r.command \in {task[t].command_str, Join(" ", task[t].cmd)}
              ELSE /\ r.return_code = -1
                   /\ r.stdout = "" /\ r.stderr = "" /\ r.command = None

\* C10: two invocations on one NVGTCompiler are independent under every
\* interleaving: each has one child of its own, each can go on as soon as
\* its own child has ended whatever the other's child does, the compiler's
\* binary path is never changed, and a result holds the exit code, output
\* and command of the invocation's own child only.
C10_Independent ==
    /\ [](\A t \in Tasks : Independent(t))
    /\ [][nvgt_binary' = nvgt_binary]_vars

\* C10 witness: t2 created its child first and that child is still running,
\* while t1, whose child came second, has its own result (exit code 0,
\* output "ok") back.
C10_Witness ==
    /\ task["t2"].pc = "communicating" /\ task["t2"].proc = 1
    /\ procs[1].state = "running"
    /\ Done("t1") /\ task["t1"].proc = 2
    /\ task["t1"].op = "run_script" /\ task["t2"].op = "get_version"
    /\ task["t1"].result.return_code = 0
    /\ task["t1"].result.stdout = "ok"
    /\ task["t1"].result.command = "\"/opt/nvgt/nvgt\" \"game.nvgt\""

(***************************************************************************)
(* Resolution of the compiler binary: detect_nvgt_installation             *)
(* (compiler.py 108-137) and NVGTCompiler.__init__ (174-186).              *)
(***************************************************************************)
WINDOWS_DEFAULT == "C:/nvgt/nvgt.exe"
MACOS_DEFAULT == "/Applications/NVGT.app/Contents/MacOS/NVGT"

ResolvePaths == {"/opt/nvgt/nvgt", WINDOWS_DEFAULT, MACOS_DEFAULT}
Kinds == {"exe", "file", "dir", "missing"}
Systems == {"windows", "darwin", "linux"}
\* the path arguments of the callers: none, the empty string, a path
PathArguments == {None, ""} \cup ResolvePaths

\* str(Path(p)): a WindowsPath is spelled with backslashes
StrPath(sys, p) ==
    IF sys # "windows" THEN p
    ELSE IF p = WINDOWS_DEFAULT THEN "C:\\nvgt\\nvgt.exe"
    ELSE IF p = MACOS_DEFAULT THEN "\\Applications\\NVGT.app\\Contents\\MacOS\\NVGT"
    ELSE IF p = "/opt/nvgt/nvgt" THEN "\\opt\\nvgt\\nvgt"
    ELSE p

\* detect_nvgt_installation(path): the path returned (or None) and the
\* default locations that were probed
detect_nvgt_installation(f, sys, path) ==
    IF TruthyStr(path)
    THEN [result |-> IF is_file(f, path) /\ exists(f, path)
                     THEN StrPath(sys, path) ELSE None,
          probed |-> {}]
    ELSE IF sys = "windows"
    THEN [result |-> IF exists(f, WINDOWS_DEFAULT)
                     THEN StrPath(sys, WINDOWS_DEFAULT) ELSE None,
          probed |-> {WINDOWS_DEFAULT}]
    ELSE IF sys = "darwin"
    THEN [result |-> IF exists(f, MACOS_DEFAULT)
                     THEN StrPath(sys, MACOS_DEFAULT) ELSE None,
          probed |-> {MACOS_DEFAULT}]
    ELSE [result |-> None, probed |-> {}]

\* a caller calls detect_nvgt_installation(path)
Detect(path) ==
    /\ LET d == detect_nvgt_installation(fs, system, path)
       IN  resolve' = [call |-> "detect", arg |-> path, result |-> d.result,
                       probed |-> d.probed, raised |-> FALSE]
    /\ UNCHANGED <<nvgt_binary, buildVars, execVars, system, inst>>

\* NVGTCompiler(nvgt_binary_path): nvgt_binary_path or
\* detect_nvgt_installation(), RuntimeError when that is falsy
Construct(path) ==
    /\ LET d == IF TruthyStr(path)
                THEN [result |-> path, probed |-> {}]
                ELSE detect_nvgt_installation(fs, system, None)
       IN  /\ resolve' = [call |-> "init", arg |-> path, result |-> d.result,
                          probed |-> d.probed,
                          raised |-> ~TruthyStr(d.result)]
           /\ nvgt_binary' = d.result
    /\ UNCHANGED <<buildVars, execVars, system, inst>>

InitResolve ==
    /\ nvgt_binary = None
    /\ script_path = None
    /\ options = NVGTCompilerOptions
    /\ cmd = <<>>
    /\ calls = "none"
    /\ fs \in [ResolvePaths -> Kinds]
    /\ task = [t \in Tasks |-> IdleTask]
    /\ procs = <<>>
    /\ system \in Systems
    /\ resolve = NoResolve
    /\ inst = NoInstall

NextResolve ==
    \/ \E path \in PathArguments : Detect(path)
    \/ \E path \in PathArguments : Construct(path)

SpecResolve == InitResolve /\ [][NextResolve]_vars

\* C7: an explicit binary path is accepted exactly when it names an existing
\* regular file: otherwise detect_nvgt_installation returns None and
\* NVGTCompiler(path) raises RuntimeError; the default locations are not
\* probed.
C7_ExplicitPathValidated ==
    (resolve.call # "none" /\ TruthyStr(resolve.arg)) =>
        /\ resolve.probed = {}
        /\ resolve.call = "detect" =>
              ((resolve.result # None) <=> is_file(fs, resolve.arg))
        /\ resolve.call = "init" =>
              (~resolve.raised <=> is_file(fs, resolve.arg))

(***************************************************************************)
(* The installer (installer.py) and its command line (cli.py).             *)
(***************************************************************************)
BASE_URL == "https://nvgt.gg"
GITHUB_BASE_URL == "https://github.com/samtupy/nvgt/releases/download/latest"

\* the version string the download site reports
LatestVersion == "0.89.2_beta"

\* NVGTBuild.windows_version / linux_version / macos_version
windows_version(b) == "nvgt_" \o b.version \o ".exe"
linux_version(b) == "nvgt_" \o b.version \o ".tar.gz"
macos_version(b) == "nvgt_" \o b.version \o ".dmg"

\* dict.get(key, default); a dict is a function on its keys, and both None
\* and {} are the function without keys (the code only tests truthiness)
DictGet(d, key, default) == IF key \in DOMAIN d THEN d[key] ELSE default

NoUrls == [k \in {} |-> ""]

\* the release assets the GitHub API lists for the development build
DevUrls(keys) ==
    [k \in keys |->
        GITHUB_BASE_URL \o "/nvgt_" \o LatestVersion \o
            (IF k = "windows" THEN ".exe"
             ELSE IF k = "linux" THEN ".tar.gz" ELSE ".dmg")]

\* NVGTBuild.get_latest(dev): the builds it can return
Builds(dev) ==
    IF dev
    THEN {[version |-> LatestVersion, is_dev |-> TRUE, download_urls |-> DevUrls(ks)] :
             ks \in {{"windows", "linux", "macos"}, {"windows", "macos"}}}
    ELSE {[version |-> LatestVersion, is_dev |-> FALSE, download_urls |-> NoUrls]}

\* NVGTBuild.windows_url / linux_url / macos_url
windows_url(b) ==
    IF b.is_dev /\ DOMAIN b.download_urls # {}
    THEN DictGet(b.download_urls, "windows", "")
    ELSE BASE_URL \o "/downloads/" \o windows_version(b)

linux_url(b) ==
    IF b.is_dev /\ DOMAIN b.download_urls # {}
    THEN DictGet(b.download_urls, "linux", "")
    ELSE BASE_URL \o "/downloads/" \o linux_version(b)

macos_url(b) ==
    IF b.is_dev /\ DOMAIN b.download_urls # {}
    THEN DictGet(b.download_urls, "macos", "")
    ELSE BASE_URL \o "/downloads/" \o macos_version(b)

\* NVGTBuild.*_install_path and macos_binary_path
windows_install_path == "C:\\nvgt"
linux_install_path == "/opt/nvgt"
macos_install_path == "/Applications/NVGT.app"
macos_binary_path == macos_install_path \o "/Contents/MacOS/NVGT"

\* the directory the user names with --path in the model
CustomPath == "/tmp/nvgt"

\* the paths of the installer's file system, spelled with forward slashes
InstallPaths ==
    {"C:/nvgt", WINDOWS_DEFAULT, "C:/nvgt/unins000.exe",
     macos_install_path, MACOS_DEFAULT,
     linux_install_path, "/opt/nvgt/nvgt",
     CustomPath, "/tmp/nvgt/nvgt"}

\* the file a path string names on the host: on Windows a backslash
\* separates as a slash does; elsewhere "C:\nvgt" is one odd file name
OnHost(sys, p) ==
    IF sys = "windows" /\ p = windows_install_path THEN "C:/nvgt" ELSE p

\* os.path.join(install_path, "unins000.exe"), as the file it names
UninstallerOf(dir) ==
    IF dir = "C:/nvgt" THEN "C:/nvgt/unins000.exe" ELSE dir \o "/unins000.exe"

\* a directory and everything under it
TreeOf(dir) ==
    IF dir = "C:/nvgt" THEN {"C:/nvgt", WINDOWS_DEFAULT, "C:/nvgt/unins000.exe"}
    ELSE IF dir = macos_install_path THEN {macos_install_path, MACOS_DEFAULT}
    ELSE IF dir = linux_install_path THEN {linux_install_path, "/opt/nvgt/nvgt"}
    ELSE IF dir = CustomPath THEN {CustomPath, "/tmp/nvgt/nvgt"}
    ELSE {dir}

\* what the Windows installer, the disk image and the archive put in place
WindowsFiles ==
    [p \in TreeOf("C:/nvgt") |-> IF p = "C:/nvgt" THEN "dir" ELSE "exe"]
MacosFiles ==
    [p \in TreeOf(macos_install_path) |->
        IF p = macos_install_path THEN "dir" ELSE "exe"]
LinuxFiles ==
    [p \in TreeOf(linux_install_path) |->
        IF p = linux_install_path THEN "dir" ELSE "exe"]

\* the file system with the files of new put in place
Put(f, new) == [p \in DOMAIN f |-> IF p \in DOMAIN new THEN new[p] ELSE f[p]]

\* shutil.rmtree(dir) / rm -rf dir
RemoveTree(f, dir) ==
    [p \in DOMAIN f |-> IF p \in TreeOf(dir) THEN "missing" ELSE f[p]]

\* os.path.isdir
isdir(f, p) == KindOf(f, p) = "dir"

\* what an installer procedure did: the file system it leaves, the
\* exception it raised (None when it returned), and its effects
Effects(f, raised, downloads, ran, removed, created) ==
    [fs |-> f, raised |-> raised, downloads |-> downloads, ran |-> ran,
     removed |-> removed, created |-> created]

\* the exception of _download_file(url, path), None when the file arrives:
\* urlopen raises ValueError for "" and URLError when the network fails
DownloadError(url, env) ==
    IF url = "" THEN "ValueError"
    ELSE IF ~env.download_ok THEN "URLError" ELSE None

\* the ways of the network and of the programs run
Envs == [download_ok : BOOLEAN, run_ok : BOOLEAN]

\* NVGTBuild.install_windows
install_windows(b, f, sys, env) ==
    LET url == windows_url(b)
        err == DownloadError(url, env)
        installer == windows_version(b)
    IN  IF err # None THEN Effects(f, err, {url}, {}, {}, {})
        ELSE IF sys # "windows"
        THEN Effects(f, "OSError", {url}, {installer}, {}, {})
        ELSE IF ~env.run_ok
        THEN Effects(f, "CalledProcessError", {url}, {installer}, {}, {})
        ELSE Effects(Put(f, WindowsFiles), None, {url}, {installer}, {},
                     DOMAIN WindowsFiles)

\* NVGTBuild.install_macos
install_macos(b, f, sys, env) ==
    LET url == macos_url(b)
        err == DownloadError(url, env)
        old == IF exists(f, macos_install_path) THEN {macos_install_path} ELSE {}
    IN  IF err # None THEN Effects(f, err, {url}, {}, {}, {})
        ELSE IF sys # "darwin"
        THEN Effects(f, "OSError", {url}, {"hdiutil attach"}, {}, {})
        ELSE IF ~env.run_ok
        THEN Effects(f, "CalledProcessError", {url}, {"hdiutil attach"}, {}, {})
        ELSE Effects(Put(RemoveTree(f, macos_install_path), MacosFiles), None,
                     {url},
                     {"hdiutil attach", "sudo cp", "hdiutil detach",
                      "sudo chmod", macos_binary_path}
                         \cup (IF old # {} THEN {"sudo rm"} ELSE {}),
                     old, DOMAIN MacosFiles)

\* NVGTBuild.install_linux
install_linux(b, f, sys, env) ==
    LET url == linux_url(b)
        err == DownloadError(url, env)
    IN  IF err # None THEN Effects(f, err, {url}, {}, {}, {})
        ELSE IF ~env.run_ok
        THEN Effects(f, "PermissionError", {url}, {}, {}, {})
        ELSE Effects(Put(f, LinuxFiles), None, {url}, {}, {}, DOMAIN LinuxFiles)

\* platform.system() on the host whose lower-cased name is sys
PlatformSystem(sys) ==
    IF sys = "windows" THEN "Windows" ELSE IF sys = "darwin" THEN "Darwin"
    ELSE IF sys = "linux" THEN "Linux" ELSE "FreeBSD"

\* str.lower() on the names of the model
Lower(name) ==
    IF name = "Windows" THEN "windows" ELSE IF name = "Darwin" THEN "darwin"
    ELSE IF name = "Linux" THEN "linux" ELSE IF name = "FreeBSD" THEN "freebsd"
    ELSE name

\* platform_name after `if platform_name is None` and .lower()
EffectiveName(platform_name, sys) ==
    Lower(IF platform_name = None THEN PlatformSystem(sys) ELSE platform_name)

\* a dispatch whose else branch installs for Linux
PlatformProcedureElseLinux(name) ==
    IF name = "windows" THEN "windows"
    ELSE IF name = "darwin" THEN "darwin"
    ELSE "linux"

\* the if/elif chain of install_for_platform and uninstall_for_platform
PlatformProcedure(name) ==
    IF name = "windows" THEN "windows"
    ELSE IF name = "darwin" THEN "darwin"
    ELSE IF name = "linux" THEN "linux"
    ELSE "unsupported"

\* NVGTBuild.install_for_platform(platform_name)
install_for_platform(b, platform_name, f, sys, env) ==
    LET procedure == PlatformProcedure(EffectiveName(platform_name, sys))
        e == IF procedure = "windows" THEN install_windows(b, f, sys, env)
             ELSE IF procedure = "darwin" THEN install_macos(b, f, sys, env)
             ELSE IF procedure = "linux" THEN install_linux(b, f, sys, env)
             ELSE Effects(f, "NotImplementedError", {}, {}, {}, {})
    IN  [procedure |-> procedure, effects |-> e]

\* NVGTBuild.uninstall_windows(path)
uninstall_windows(path, f, sys, env) ==
    LET install_path ==
            OnHost(sys, IF TruthyStr(path) THEN path ELSE windows_install_path)
        uninstaller == UninstallerOf(install_path)
        ran == IF exists(f, uninstaller) THEN {uninstaller} ELSE {}
    IN  IF ~isdir(f, install_path) THEN Effects(f, None, {}, {}, {}, {})
        ELSE IF ran # {} /\ sys # "windows"
        THEN Effects(f, "OSError", {}, ran, {}, {})
        ELSE IF ran # {} /\ ~env.run_ok
        THEN Effects(f, "CalledProcessError", {}, ran, {}, {})
        ELSE Effects(RemoveTree(f, install_path), None, {}, ran,
                     {install_path}, {})

\* NVGTBuild.uninstall_macos(path)
uninstall_macos(path, f, sys, env) ==
    LET install_path == IF TruthyStr(path) THEN path ELSE macos_install_path
    IN  IF ~exists(f, install_path) THEN Effects(f, None, {}, {}, {}, {})
        ELSE IF sys = "windows"
        THEN Effects(f, "OSError", {}, {"sudo rm"}, {}, {})
        ELSE IF ~env.run_ok
        THEN Effects(f, "CalledProcessError", {}, {"sudo rm"}, {}, {})
        ELSE Effects(RemoveTree(f, install_path), None, {}, {"sudo rm"},
                     {install_path}, {})

\* NVGTBuild.uninstall_linux(path)
uninstall_linux(path, f, sys, env) ==
    LET install_path == IF TruthyStr(path) THEN path ELSE linux_install_path
    IN  IF ~exists(f, install_path) THEN Effects(f, None, {}, {}, {}, {})
        ELSE IF ~env.run_ok
        THEN Effects(f, "PermissionError", {}, {}, {}, {})
        ELSE Effects(RemoveTree(f, install_path), None, {}, {},
                     {install_path}, {})

\* NVGTBuild.uninstall_for_platform(platform_name, path)
uninstall_for_platform(platform_name, path, f, sys, env) ==
    LET procedure == PlatformProcedure(EffectiveName(platform_name, sys))
        e == IF procedure = "windows" THEN uninstall_windows(path, f, sys, env)
             ELSE IF procedure = "darwin" THEN uninstall_macos(path, f, sys, env)
             ELSE IF procedure = "linux" THEN uninstall_linux(path, f, sys, env)
             ELSE Effects(f, "NotImplementedError", {}, {}, {}, {})
    IN  [procedure |-> procedure, effects |-> e]

\* the record of an installer call that entered (un)install_for_platform
CallRecord(call, platform_name, path, r) ==
    [call |-> call, platform_name |-> platform_name, path |-> path,
     entered |-> TRUE, procedure |-> r.procedure, raised |-> r.effects.raised,
     downloads |-> r.effects.downloads, ran |-> r.effects.ran,
     removed |-> r.effects.removed, created |-> r.effects.created]

\* the platform names and paths the callers of the model pass
PlatformNames == {"windows", "darwin", "linux", "mac", "android", "Linux"}
PathOptions == {None, CustomPath}

\* a caller calls build.install_for_platform(platform_name) on a build that
\* get_latest returned
InstallForPlatform(platform_name) ==
    /\ \E dev \in BOOLEAN : \E b \in Builds(dev), env \in Envs :
          LET r == install_for_platform(b, platform_name, fs, system, env)
          IN  /\ fs' = r.effects.fs
              /\ inst' = CallRecord("install_for_platform", platform_name, None, r)
    /\ resolve' = NoResolve
    /\ UNCHANGED <<nvgt_binary, buildVars, task, procs, system>>

\* a caller calls build.uninstall_for_platform(platform_name, path)
UninstallForPlatform(platform_name, path) ==
    /\ \E env \in Envs :
          LET r == uninstall_for_platform(platform_name, path, fs, system, env)
          IN  /\ fs' = r.effects.fs
              /\ inst' = CallRecord("uninstall_for_platform", platform_name, path, r)
    /\ resolve' = NoResolve
    /\ UNCHANGED <<nvgt_binary, buildVars, task, procs, system>>

\* the --platform option of the command line: its default is
\* platform.system().lower()
PlatformOption(given, sys) == IF given = None THEN sys ELSE given

\* cli.install(dev, path, platform): get_latest, which stops the command
\* when the network fails, then install_for_platform(platform)
CliInstall(dev, path, given) ==
    /\ \/ /\ inst' = [NoInstall EXCEPT !.call = "install",
                                        !.platform_name = PlatformOption(given, system),
                                        !.path = path, !.raised = "URLError"]
          /\ UNCHANGED fs
       \/ \E b \in Builds(dev), env \in Envs :
             LET name == PlatformOption(given, system)
                 r == install_for_platform(b, name, fs, system, env)
             IN  /\ fs' = r.effects.fs
                 /\ inst' = CallRecord("install", name, path, r)
    /\ resolve' = NoResolve
    /\ UNCHANGED <<nvgt_binary, buildVars, task, procs, system>>

\* cli.uninstall(path, platform)
CliUninstall(path, given) ==
    /\ \E env \in Envs :
          LET name == PlatformOption(given, system)
              r == uninstall_for_platform(name, path, fs, system, env)
          IN  /\ fs' = r.effects.fs
              /\ inst' = CallRecord("uninstall", name, path, r)
    /\ resolve' = NoResolve
    /\ UNCHANGED <<nvgt_binary, buildVars, task, procs, system>>

(***************************************************************************)
(* SpecInstall: installer calls and automatic detection on one host.       *)
(***************************************************************************)
HostSystems == Systems \cup {"freebsd"}

InitInstall ==
    /\ nvgt_binary = None
    /\ script_path = None
    /\ options = NVGTCompilerOptions
    /\ cmd = <<>>
    /\ calls = "none"
    /\ \E custom \in BOOLEAN :
          fs = [p \in InstallPaths |->
                   IF custom /\ p \in TreeOf(CustomPath)
                   THEN (IF p = CustomPath THEN "dir" ELSE "exe")
                   ELSE "missing"]
    /\ task = [t \in Tasks |-> IdleTask]
    /\ procs = <<>>
    /\ system \in HostSystems
    /\ resolve = NoResolve
    /\ inst = NoInstall

NextInstall ==
    \/ \E name \in {None} \cup PlatformNames : InstallForPlatform(name)
    \/ \E name \in {None} \cup PlatformNames, path \in PathOptions :
          UninstallForPlatform(name, path)
    \/ \E dev \in BOOLEAN, path \in PathOptions,
          given \in {None} \cup PlatformNames : CliInstall(dev, path, given)
    \/ \E path \in PathOptions, given \in {None} \cup PlatformNames :
          CliUninstall(path, given)
    \/ Detect(None)
    \/ Construct(None)

SpecInstall == InitInstall /\ [][NextInstall]_vars

(***************************************************************************)
(* Claims about the installer.                                             *)
(***************************************************************************)
KnownPlatforms == {"windows", "darwin", "linux"}

\* the name an entered call asked for: the host's when it passed None
Requested == IF inst.platform_name = None THEN system ELSE inst.platform_name

NoEffects ==
    /\ inst.downloads = {}
    /\ inst.ran = {}
    /\ inst.removed = {}
    /\ inst.created = {}

C12_InstalledUnderPath ==
    (inst.call = "install" /\ inst.entered /\ inst.raised = None) =>
        /\ inst.created # {}
        /\ inst.path # None => inst.created \subseteq TreeOf(inst.path)
        /\ inst.path = None =>
              inst.created \subseteq
                  TreeOf("C:/nvgt") \cup TreeOf(linux_install_path)
                      \cup TreeOf(macos_install_path)

\* the names the help of --platform lists for the install command
DocumentedInstallPlatforms == {"android", "linux", "mac", "windows"}

\* C13: the install command run with a platform name its help documents
\* selects an install procedure, asks for that platform's download and does
\* not end in the unsupported-platform failure.
C13_DocumentedNamesInstall ==
    (inst.call = "install" /\ inst.entered
        /\ inst.platform_name \in DocumentedInstallPlatforms) =>
        /\ inst.procedure # "unsupported"
        /\ inst.raised # "NotImplementedError"
        /\ inst.downloads # {}

\* the compiler binary a default install for the host puts in place
InstalledBinary(sys) ==
    IF sys = "windows" THEN WINDOWS_DEFAULT
    ELSE IF sys = "darwin" THEN MACOS_DEFAULT
    ELSE "/opt/nvgt/nvgt"

\* the last installer call installed for the host itself and returned
InstalledOnHost ==
    /\ inst.call \in {"install", "install_for_platform"}
    /\ inst.entered
    /\ inst.raised = None
    /\ inst.procedure = system

\* C14: after a successful default install on a supported host, automatic
\* detection on that host returns the installed binary and NVGTCompiler()
\* constructs; with nothing at the default location detection returns
\* None; only the host's default location is probed.
C14_InstallThenDetect ==
    /\ (resolve.call \in {"detect", "init"} /\ InstalledOnHost) =>
          /\ resolve.result = StrPath(system, InstalledBinary(system))
          /\ ~resolve.raised
    /\ (resolve.call = "detect" /\ system \in KnownPlatforms
           /\ ~exists(fs, InstalledBinary(system))) =>
          resolve.result = None
    /\ resolve.call \in {"detect", "init"} =>
          resolve.probed \subseteq {InstalledBinary(system)}

====
